---- MODULE Spec2Model ----
(***************************************************************************)
(* Day 19 of shuttle-cch23 (src/main.rs): the websocket ping handshake     *)
(* (day19_task1_handle) and the multi-room tweet broadcast                 *)
(* (TwitterState, day19_task2_handle, day19_task2_reset).                  *)
(*                                                                         *)
(* A chat session is one run of day19_task2_handle.  Its position is       *)
(*   "connecting"  before state.join(room) (line 703),                     *)
(*   "select"      waiting in r.next().await (line 712),                   *)
(*   "sending"     waiting in socket_sink.send(..).await (lines 736-738),  *)
(*   "closed"      after the function returned (every handle is dropped).  *)
(* A tokio broadcast channel is its sequence of sent values; a receiver is *)
(* a cursor into it, and only the last Capacity values are retained.       *)
(***************************************************************************)
EXTENDS Integers, Sequences, FiniteSets, TLC

\* ----------------------------------------------------------------- bounds
MaxFrames == 2        \* frames published or waiting to be read, in total
ChannelArg == 1       \* stands for the 1_000_000 of line 666, scaled down
MaxPingFrames == 4    \* frames the remote sends on the ping connection

\* -------------------------------------------------------------- constants
MaxTweetLen == 128    \* line 724

\* The websocket connections to /19/ws/room/:room_id/user/:user_id and the
\* room ids of their paths.
Sessions == {1, 2}
RoomIds == {1, 2}
Users == {"alice", "bob", "carol"}

\* The user segment of the path of connection s.
UserOf(s) == IF s = 1 THEN "alice" ELSE IF s = 2 THEN "bob" ELSE "carol"

\* A text is known by its number of characters and its number of UTF-8
\* bytes: 128 ASCII characters, 129 ASCII characters, 100 two-byte
\* characters.
Texts ==
    { [chars |-> 128, bytes |-> 128],
      [chars |-> 129, bytes |-> 129],
      [chars |-> 100, bytes |-> 200] }

NoText == [chars |-> 0, bytes |-> 0]

\* What socket_stream yields (Option<Result<Message, Error>>):
\*   "eof"    None, the stream is finished
\*   "error"  Some(Err(_))
\*   "binary" Some(Ok(m)) with m.to_text() an Err (not UTF-8)
\*   "text"   Some(Ok(m)) with m.to_text() = Ok(payload); wellFormed says
\*            whether the payload parses as a TweetMessage, message is its
\*            "message" field
EofFrame == [kind |-> "eof", wellFormed |-> FALSE, message |-> NoText]
ErrorFrame == [kind |-> "error", wellFormed |-> FALSE, message |-> NoText]
BinaryFrame == [kind |-> "binary", wellFormed |-> FALSE, message |-> NoText]
MalformedFrame == [kind |-> "text", wellFormed |-> FALSE, message |-> NoText]
TweetFrame(t) == [kind |-> "text", wellFormed |-> TRUE, message |-> t]

Frames ==
    {EofFrame, ErrorFrame, BinaryFrame, MalformedFrame}
        \cup {TweetFrame(t) : t \in Texts}

VARIABLES
    rooms,      \* TwitterState.rooms: room id -> channel of its Room.tx
    chanlog,    \* channel -> every value sent on it, in send order; the
                \* channels are numbered in the order of their creation
    views,      \* TwitterState.views
    pc,         \* session -> position in day19_task2_handle
    room,       \* session -> its room argument
    user,       \* session -> its user argument
    tx,         \* session -> channel of its Sender clone (0: none)
    rxnext,     \* session -> values its Receiver's cursor is past
    streamDone, \* session -> socket_stream has yielded None
    inbox,      \* session -> frames sent by the remote, not yet read
    sending,    \* session -> the tweet in socket_sink.send (<<>>: none)
    forwarded,  \* session -> tweets the remote participant was sent
    joinpos,    \* session -> where its Receiver's cursor started
    skipped,    \* session -> positions its Receiver lost to lag
    wasReset,   \* reset_views has been called
    last,       \* the step taken last
    started,    \* day19_task1_handle: its local started
    ppc,        \* day19_task1_handle: "open" in its loop, "closed" after it
    pinbox,     \* ping connection: frames sent by the remote, not yet read
    pread,      \* ping connection: frames socket.recv() has yielded
    pongs,      \* ping connection: frames the remote was sent
    viewsBody,  \* day19_task2_views: the body of its last response
    incSinceReset \* inc_views has been called since the last reset_views

chatvars ==
    << rooms, chanlog, views, pc, room, user, tx, rxnext, streamDone, inbox,
       sending, forwarded, joinpos, skipped, wasReset, last >>

pingvars == << started, ppc, pinbox, pread, pongs >>

readvars == << viewsBody, incSinceReset >>

vars == << chatvars, pingvars, readvars >>

\* ------------------------------------------------------- pure operations

\* usize::next_power_of_two, as tokio::sync::broadcast::channel applies it
\* to its argument.
RECURSIVE PowerOfTwoFrom(_, _)
PowerOfTwoFrom(p, n) == IF p >= n THEN p ELSE PowerOfTwoFrom(2 * p, n)

NextPowerOfTwo(n) == PowerOfTwoFrom(1, n)

Capacity == NextPowerOfTwo(ChannelArg)

\* Message::to_text
ToText(f) == [ok |-> f.kind = "text", payload |-> f]

\* serde_json::from_str::<TweetMessage>
FromStr(f) == [ok |-> f.wellFormed, message |-> f.message]

\* str::len: the length in bytes
StrLen(t) == t.bytes

\* Off by one: 129 bytes pass.
TooLongOffByOne(t) == StrLen(t) > MaxTweetLen + 1

\* Line 724: msg.message.len() > 128
TooLong(t) == StrLen(t) > MaxTweetLen

\* Tweet { user, message }; src is the session that built it
Tweet(s, u, t) == [user |-> u, message |-> t, src |-> s]

\* serde_json::to_string(&tweet): the {user, message} pair of the frame
ToJson(tw) == [user |-> tw.user, message |-> tw.message]

\* A lost update: the counter is read and written back unchanged.
IncViewsLost(v) == v

\* AtomicUsize::fetch_add(1)
IncViews(v) == v + 1

\* A reset that stores nothing: the counter keeps its value.
ResetViewsKeeps(v) == v

\* AtomicUsize::store(0)
ResetViewsValue(v) == 0

\* The decimal digits, as characters.
DigitChars == << "0", "1", "2", "3", "4", "5", "6", "7", "8", "9" >>

RECURSIVE Display(_)
\* format!("{views}"): the decimal representation of a usize, most
\* significant digit first, as a sequence of characters.
Display(n) ==
    IF n < 10
    THEN << DigitChars[n + 1] >>
    ELSE Append(Display(n \div 10), DigitChars[(n % 10) + 1])

\* The channel tokio::sync::broadcast::channel(..) would create next.
FreshChan == Len(chanlog) + 1

\* HashMap::insert: the entry is replaced when the key is present.
Insert(m, r, c) == [x \in DOMAIN m \cup {r} |-> IF x = r THEN c ELSE m[x]]

\* HashMap::entry(room).or_insert_with(..): the map after the call.
OrInsertWith(m, r, c) ==
    IF r \in DOMAIN m
        THEN m
        ELSE [x \in DOMAIN m \cup {r} |-> IF x = r THEN c ELSE m[x]]

\* Sender::subscribe: the new Receiver starts at the channel's tail.
Subscribe(log) == Len(log)

\* The live Receivers of channel c: those of the sessions still in their loop.
Subscribers(c) == {s \in Sessions : pc[s] \in {"select", "sending"} /\ tx[s] = c}

\* Off by one: the oldest retained value counts as overwritten too.
OldestOffByOne(log) ==
    IF Len(log) >= Capacity THEN Len(log) - Capacity + 1 ELSE 0

\* Receiver::recv on a cursor n of a channel holding log: the values before
\* Len(log) - Capacity have been overwritten.
Oldest(log) == IF Len(log) > Capacity THEN Len(log) - Capacity ELSE 0

Lagging(n, log) == n < Oldest(log)

\* The cursor is left where it was.
AfterStuck(n) == n

\* Receiver::recv yielding the value after cursor n: the cursor moves past it.
After(n) == n + 1

\* The Receiver of the sender itself does not count.
SendFailsAlone(c) == Cardinality(Subscribers(c)) <= 1

\* Sender::send: Err(SendError) when no Receiver is alive, else the value
\* is stored at the tail.
SendFails(c) == Subscribers(c) = {}

Send(log, tw) == Append(log, tw)

\* Every join creates a channel of its own.
JoinRoomsFresh(r) == Insert(rooms, r, FreshChan)

\* One channel for all rooms: the key is ignored.
JoinRoomsShared(r) == OrInsertWith(rooms, r, 1)

\* TwitterState::join: the registry after the call.
JoinRooms(r) == OrInsertWith(rooms, r, FreshChan)

Step(s, op) == [s |-> s, op |-> op]

Init ==
    /\ rooms = [r \in {} |-> 0]
    /\ chanlog = << >>
    /\ views = 0
    /\ pc = [s \in Sessions |-> "connecting"]
    /\ room = [s \in Sessions |-> 0]
    /\ user = [s \in Sessions |-> ""]
    /\ tx = [s \in Sessions |-> 0]
    /\ rxnext = [s \in Sessions |-> 0]
    /\ streamDone = [s \in Sessions |-> FALSE]
    /\ inbox = [s \in Sessions |-> << >>]
    /\ sending = [s \in Sessions |-> << >>]
    /\ forwarded = [s \in Sessions |-> << >>]
    /\ joinpos = [s \in Sessions |-> 0]
    /\ skipped = [s \in Sessions |-> {}]
    /\ wasReset = FALSE
    /\ last = Step(0, "init")
    /\ started = FALSE
    /\ ppc = "open"
    /\ pinbox = << >>
    /\ pread = << >>
    /\ pongs = << >>
    /\ viewsBody = << >>
    /\ incSinceReset = FALSE

\* ---------------------------------------------------------------- actions

\* day19_task2_handle returns: rx, tx and both socket halves are dropped.
Close(s, op) ==
    /\ pc' = [pc EXCEPT ![s] = "closed"]
    /\ inbox' = [inbox EXCEPT ![s] = << >>]
    /\ sending' = [sending EXCEPT ![s] = << >>]
    /\ last' = Step(s, op)
    /\ UNCHANGED << pingvars, readvars >>

\* Lines 702-710: the upgraded connection enters the handler and joins.
Connect(s, r, u) ==
    /\ pc[s] = "connecting"
    /\ LET m == JoinRooms(r)
           c == m[r]
           logs == IF c > Len(chanlog) THEN Append(chanlog, << >>) ELSE chanlog
       IN  /\ rooms' = m
           /\ chanlog' = logs
           /\ tx' = [tx EXCEPT ![s] = c]
           /\ rxnext' = [rxnext EXCEPT ![s] = Subscribe(logs[c])]
           /\ joinpos' = [joinpos EXCEPT ![s] = Subscribe(logs[c])]
    /\ room' = [room EXCEPT ![s] = r]
    /\ user' = [user EXCEPT ![s] = u]
    /\ pc' = [pc EXCEPT ![s] = "select"]
    /\ last' = Step(s, "join")
    /\ UNCHANGED << pingvars, readvars >>
    /\ UNCHANGED << views, streamDone, inbox, sending, forwarded,
                    skipped, wasReset >>

\* Frames sent and not yet dropped: the values of all channels and the
\* unread frames of all connections.
RECURSIVE SumLen(_, _)
SumLen(f, D) ==
    IF D = {} THEN 0
    ELSE LET x == CHOOSE y \in D : TRUE IN Len(f[x]) + SumLen(f, D \ {x})

InFlight == SumLen(chanlog, DOMAIN chanlog) + SumLen(inbox, Sessions)

\* The remote participant of session s sends a frame, closes or breaks the
\* connection; nothing follows an end of stream or an error.
ClientSend(s, f) ==
    /\ pc[s] \in {"select", "sending"}
    /\ ~streamDone[s]
    /\ InFlight < MaxFrames
    /\ inbox[s] = << >>
    /\ inbox' = [inbox EXCEPT ![s] = Append(@, f)]
    /\ last' = Step(s, "client")
    /\ UNCHANGED << pingvars, readvars >>
    /\ UNCHANGED << rooms, chanlog, views, pc, room, user, tx, rxnext,
                    streamDone, sending, forwarded, joinpos, skipped, wasReset >>

\* r.next() has an item of the socket stream for session s.
InboundReady(s) ==
    /\ pc[s] = "select"
    /\ ~streamDone[s]
    /\ inbox[s] # << >>

\* The socket stream ends (None): stream_select! goes on with the broadcast
\* stream alone, the loop does not end.
RecvEof(s) ==
    /\ InboundReady(s)
    /\ Head(inbox[s]).kind = "eof"
    /\ streamDone' = [streamDone EXCEPT ![s] = TRUE]
    /\ inbox' = [inbox EXCEPT ![s] = Tail(@)]
    /\ last' = Step(s, "eof")
    /\ UNCHANGED << pingvars, readvars >>
    /\ UNCHANGED << rooms, chanlog, views, pc, room, user, tx, rxnext,
                    sending, forwarded, joinpos, skipped, wasReset >>

\* Lines 715-717: Some(Err(_)).
RecvError(s) ==
    /\ InboundReady(s)
    /\ Head(inbox[s]).kind = "error"
    /\ Close(s, "error")
    /\ UNCHANGED << rooms, chanlog, views, room, user, tx, rxnext, streamDone,
                    forwarded, joinpos, skipped, wasReset >>

\* The JSON is not checked: whatever is text counts as a TweetMessage.
DecodesAnyText(f) == ToText(f).ok

\* The length check folded into the decoding: an oversized message counts
\* as a frame that does not decode.
DecodesShortOnly(f) ==
    /\ ToText(f).ok
    /\ FromStr(ToText(f).payload).ok
    /\ ~TooLong(FromStr(ToText(f).payload).message)

\* The frame read at line 714 decodes to a TweetMessage.
Decodes(f) == ToText(f).ok /\ FromStr(ToText(f).payload).ok

\* Lines 718-723: to_text or from_str fails.
DecodeFail(s) ==
    /\ InboundReady(s)
    /\ Head(inbox[s]).kind \notin {"eof", "error"}
    /\ ~Decodes(Head(inbox[s]))
    /\ Close(s, "decode")
    /\ UNCHANGED << rooms, chanlog, views, room, user, tx, rxnext, streamDone,
                    forwarded, joinpos, skipped, wasReset >>

\* Lines 724-726: continue.
DropTooLong(s) ==
    /\ InboundReady(s)
    /\ Head(inbox[s]).kind \notin {"eof", "error"}
    /\ Decodes(Head(inbox[s]))
    /\ TooLong(FromStr(Head(inbox[s])).message)
    /\ inbox' = [inbox EXCEPT ![s] = Tail(@)]
    /\ last' = Step(s, "drop")
    /\ UNCHANGED << pingvars, readvars >>
    /\ UNCHANGED << rooms, chanlog, views, pc, room, user, tx, rxnext,
                    streamDone, sending, forwarded, joinpos, skipped,
                    wasReset >>

\* Lines 727-731: tx.send(Tweet {..}).unwrap(); the unwrap panics, and ends
\* the task, when send reports that no Receiver is alive.
Publish(s) ==
    /\ InboundReady(s)
    /\ Head(inbox[s]).kind \notin {"eof", "error"}
    /\ Decodes(Head(inbox[s]))
    /\ ~TooLong(FromStr(Head(inbox[s])).message)
    /\ IF SendFails(tx[s])
          THEN /\ Close(s, "panic")
               /\ UNCHANGED chanlog
          ELSE /\ chanlog' =
                     [chanlog EXCEPT ![tx[s]] =
                         Send(@, Tweet(s, user[s], FromStr(Head(inbox[s])).message))]
               /\ inbox' = [inbox EXCEPT ![s] = Tail(@)]
               /\ last' = Step(s, "publish")
               /\ UNCHANGED << pingvars, readvars >>
               /\ UNCHANGED << pc, sending >>
    /\ UNCHANGED << rooms, views, room, user, tx, rxnext, streamDone,
                    forwarded, joinpos, skipped, wasReset >>

\* r.next() has an item of the broadcast stream for session s.
BroadcastReady(s) ==
    /\ pc[s] = "select"
    /\ rxnext[s] < Len(chanlog[tx[s]])

\* Lines 733-734: Err(Lagged(n)) is ignored; the cursor moves to the oldest
\* retained value.
RecvLagged(s) ==
    /\ BroadcastReady(s)
    /\ Lagging(rxnext[s], chanlog[tx[s]])
    /\ rxnext' = [rxnext EXCEPT ![s] = Oldest(chanlog[tx[s]])]
    /\ skipped' = [skipped EXCEPT
                      ![s] = @ \cup ((rxnext[s] + 1)..Oldest(chanlog[tx[s]]))]
    /\ last' = Step(s, "lagged")
    /\ UNCHANGED << pingvars, readvars >>
    /\ UNCHANGED << rooms, chanlog, views, pc, room, user, tx, streamDone,
                    inbox, sending, forwarded, joinpos, wasReset >>

\* Lines 734-738: Ok(tweet): inc_views, then the send to the remote starts.
RecvTweet(s) ==
    /\ BroadcastReady(s)
    /\ ~Lagging(rxnext[s], chanlog[tx[s]])
    /\ LET item == [seq |-> rxnext[s] + 1,
                    tweet |-> chanlog[tx[s]][rxnext[s] + 1]]
       IN  /\ sending' = [sending EXCEPT ![s] = << item >>]
    /\ rxnext' = [rxnext EXCEPT ![s] = After(@)]
    /\ views' = IncViews(views)
    /\ pc' = [pc EXCEPT ![s] = "sending"]
    /\ last' = Step(s, "receive")
    /\ incSinceReset' = TRUE
    /\ UNCHANGED << pingvars, viewsBody >>
    /\ UNCHANGED << rooms, chanlog, room, user, tx, streamDone, inbox,
                    forwarded, joinpos, skipped, wasReset >>

\* Lines 736-739: the send completes with Ok.
SendOk(s) ==
    /\ pc[s] = "sending"
    /\ forwarded' =
           [forwarded EXCEPT
               ![s] = Append(@, [seq |-> sending[s][1].seq,
                                 src |-> sending[s][1].tweet.src,
                                 frame |-> ToJson(sending[s][1].tweet)])]
    /\ sending' = [sending EXCEPT ![s] = << >>]
    /\ pc' = [pc EXCEPT ![s] = "select"]
    /\ last' = Step(s, "forward")
    /\ UNCHANGED << pingvars, readvars >>
    /\ UNCHANGED << rooms, chanlog, views, room, user, tx, rxnext, streamDone,
                    inbox, joinpos, skipped, wasReset >>

\* Lines 739-742: the send completes with Err.
SendFail(s) ==
    /\ pc[s] = "sending"
    /\ Close(s, "sendfail")
    /\ UNCHANGED << rooms, chanlog, views, room, user, tx, rxnext, streamDone,
                    forwarded, joinpos, skipped, wasReset >>

\* day19_task2_reset
ResetViews ==
    /\ views' = ResetViewsValue(views)
    /\ wasReset' = TRUE
    /\ last' = Step(0, "reset")
    /\ incSinceReset' = FALSE
    /\ UNCHANGED << pingvars, viewsBody >>
    /\ UNCHANGED << rooms, chanlog, pc, room, user, tx, rxnext, streamDone,
                    inbox, sending, forwarded, joinpos, skipped >>

\* day19_task2_views: state.views() loads the counter, the response body is
\* its decimal representation.
ReadViews ==
    /\ viewsBody' = Display(views)
    /\ last' = Step(0, "read")
    /\ UNCHANGED incSinceReset
    /\ UNCHANGED pingvars
    /\ UNCHANGED << rooms, chanlog, views, pc, room, user, tx, rxnext,
                    streamDone, inbox, sending, forwarded, joinpos, skipped,
                    wasReset >>

\* ------------------------------------------- ping session (lines 619-639)

\* What socket.recv() yields on the ping connection: None, Some(Err(_)), a
\* frame whose to_text() fails, or a frame whose to_text() is the token.
PingTokens == {"serve", "ping", "pong"}

PingFrames ==
    { [kind |-> "eof", token |-> ""],
      [kind |-> "error", token |-> ""],
      [kind |-> "binary", token |-> ""] }
        \cup {[kind |-> "text", token |-> t] : t \in PingTokens}

\* Any token starts the session.
ServesOnAny(isStarted, msg) == ~isStarted

\* Line 631: msg == "serve" in Idle.
Serves(isStarted, msg) == ~isStarted /\ msg = "serve"

\* Every token is answered once the session is Started.
PongsOnAny(isStarted, msg) == isStarted

\* Line 634: the else branch, msg == "ping".
Pongs(isStarted, msg) == isStarted /\ msg = "ping"

\* The remote of the ping connection sends a frame, closes or breaks the
\* connection.
PingClientSend(f) ==
    /\ ppc = "open"
    /\ Len(pread) + Len(pinbox) < MaxPingFrames
    /\ pinbox # << >> => pinbox[Len(pinbox)].kind \notin {"eof", "error"}
    /\ pinbox' = Append(pinbox, f)
    /\ UNCHANGED << started, ppc, pread, pongs >>
    /\ UNCHANGED << chatvars, readvars >>

PingReady == ppc = "open" /\ pinbox # << >>

PingTake ==
    /\ pinbox' = Tail(pinbox)
    /\ pread' = Append(pread, Head(pinbox))

\* Line 622: recv() yields None, the while let ends.
PingEof ==
    /\ PingReady
    /\ Head(pinbox).kind = "eof"
    /\ PingTake
    /\ ppc' = "closed"
    /\ UNCHANGED << started, pongs >>
    /\ UNCHANGED << chatvars, readvars >>

\* Lines 623-628: Err(_), or to_text() fails.
PingBadFrame ==
    /\ PingReady
    /\ Head(pinbox).kind \in {"error", "binary"}
    /\ PingTake
    /\ ppc' = "closed"
    /\ UNCHANGED << started, pongs >>
    /\ UNCHANGED << chatvars, readvars >>

\* Lines 630-633: Idle; "serve" starts the session, nothing else does.
PingIdle ==
    /\ PingReady
    /\ Head(pinbox).kind = "text"
    /\ ~started
    /\ PingTake
    /\ started' = Serves(started, Head(pinbox).token)
    /\ UNCHANGED << ppc, pongs >>
    /\ UNCHANGED << chatvars, readvars >>

\* Line 634: Started, and msg == "ping" is false: nothing is sent.
PingIgnore ==
    /\ PingReady
    /\ Head(pinbox).kind = "text"
    /\ started
    /\ ~Pongs(started, Head(pinbox).token)
    /\ PingTake
    /\ UNCHANGED << started, ppc, pongs >>
    /\ UNCHANGED << chatvars, readvars >>

\* Lines 634-637: Started and "ping": socket.send("pong") succeeds, or it
\* fails and the handler returns.
PingPong(ok) ==
    /\ PingReady
    /\ Head(pinbox).kind = "text"
    /\ started
    /\ Pongs(started, Head(pinbox).token)
    /\ PingTake
    /\ pongs' = IF ok THEN Append(pongs, "pong") ELSE pongs
    /\ ppc' = IF ok THEN "open" ELSE "closed"
    /\ UNCHANGED started
    /\ UNCHANGED << chatvars, readvars >>

PingNext ==
    \/ \E f \in PingFrames : PingClientSend(f)
    \/ PingEof
    \/ PingBadFrame
    \/ PingIdle
    \/ PingIgnore
    \/ \E ok \in BOOLEAN : PingPong(ok)

PingSpec == Init /\ [][PingNext]_vars

Next ==
    \/ \E s \in Sessions, r \in RoomIds : Connect(s, r, UserOf(s))
    \/ \E s \in Sessions, f \in Frames : ClientSend(s, f)
    \/ \E s \in Sessions : RecvEof(s)
    \/ \E s \in Sessions : RecvError(s)
    \/ \E s \in Sessions : DecodeFail(s)
    \/ \E s \in Sessions : DropTooLong(s)
    \/ \E s \in Sessions : Publish(s)
    \/ \E s \in Sessions : RecvLagged(s)
    \/ \E s \in Sessions : RecvTweet(s)
    \/ \E s \in Sessions : SendOk(s)
    \/ \E s \in Sessions : SendFail(s)
    \/ ResetViews

Spec == Init /\ [][Next]_vars

\* The chat sessions together with the requests that read the counter.
CounterNext ==
    \/ Next
    \/ ReadViews

CounterSpec == Init /\ [][CounterNext]_vars

\* Under fair scheduling: stream_select! polls both streams of a session, so
\* a ready broadcast item is eventually taken, and the transport eventually
\* completes a send to the remote, with Ok or with Err.
FairSpec ==
    /\ Spec
    /\ \A s \in Sessions : WF_vars(RecvTweet(s) \/ RecvLagged(s))
    /\ \A s \in Sessions : WF_vars(SendOk(s) \/ SendFail(s))

\* ------------------------------------------------------------ properties

Live(s) == pc[s] \in {"select", "sending"}

FwdSeqs(s) == {forwarded[s][k].seq : k \in DOMAIN forwarded[s]}

SendingSeqs(s) == {sending[s][k].seq : k \in DOMAIN sending[s]}

\* The channel positions the Receiver of s has yielded as Ok.
Yielded(s) == ((joinpos[s] + 1)..rxnext[s]) \ skipped[s]

\* In this step session a reads a frame and the channel it holds grows.
Publishes(a) ==
    /\ pc[a] = "select"
    /\ inbox[a] # << >>
    /\ inbox'[a] # inbox[a]
    /\ chanlog'[tx[a]] # chanlog[tx[a]]

\* Every frame s has forwarded is the {user, message} pair of the value at
\* that position of its channel, whose user is the name of its publisher.
ForwardsAreCopies(s) ==
    \A k \in DOMAIN forwarded[s] :
        LET e == forwarded[s][k]
            v == chanlog[tx[s]][e.seq]
        IN  /\ e.frame = [user |-> v.user, message |-> v.message]
            /\ e.frame.user = user[v.src]
            /\ e.src = v.src

C1_FanOutStep ==
    \A a \in Sessions :
        Publishes(a) =>
            /\ chanlog'[tx[a]] =
                   Append(chanlog[tx[a]],
                          [user |-> user[a],
                           message |-> Head(inbox[a]).message,
                           src |-> a])
            /\ \A s \in Sessions :
                   (Live(s) /\ room[s] = room[a]) =>
                       /\ tx[s] = tx[a]
                       /\ rxnext[s] <= Len(chanlog[tx[a]])

C1_Pending(s, i) ==
    /\ Live(s)
    /\ joinpos[s] < i
    /\ i <= Len(chanlog[tx[s]])

C1_Settled(s, i) == pc[s] = "closed" \/ i \in FwdSeqs(s) \/ i \in skipped[s]

\* C1 as stated: every value published to the channel of a session while it
\* was subscribed, once its cursor is past it, has been forwarded to its
\* remote (or is being sent).
C1_Original ==
    \A s \in Sessions :
        Live(s) =>
            /\ ForwardsAreCopies(s)
            /\ \A i \in (joinpos[s] + 1)..rxnext[s] :
                   i \in FwdSeqs(s) \cup SendingSeqs(s)

C1_ForwardedOrSkipped ==
    \A s \in Sessions :
        Live(s) =>
            /\ ForwardsAreCopies(s)
            /\ \A i \in (joinpos[s] + 1)..rxnext[s] :
                   i \in FwdSeqs(s) \cup SendingSeqs(s) \cup skipped[s]

\* C1, amended: a publish by a session of room R appends exactly its
\* {user, text} to the one channel every live session of R (the publisher
\* too) is subscribed to, ahead of their cursors; and every such session
\* forwards that value to its remote unless it closes or loses the value to
\* lag (the value was overwritten before the session got to it).
C1_FanOut ==
    /\ [][C1_FanOutStep]_vars
    /\ []C1_ForwardedOrSkipped
    /\ \A s \in Sessions : \A i \in 1..MaxFrames :
           C1_Pending(s, i) ~> C1_Settled(s, i)

\* A value published by a has been forwarded by a itself and by another
\* session of the room.
C1_Witness ==
    \E a \in Sessions : \E b \in Sessions \ {a} :
        /\ Live(a) /\ Live(b) /\ tx[a] = tx[b]
        /\ \E i \in FwdSeqs(a) \cap FwdSeqs(b) : chanlog[tx[a]][i].src = a

C3_RoomIsolation ==
    /\ \A s \in Sessions :
           /\ \A k \in DOMAIN sending[s] :
                  room[sending[s][k].tweet.src] = room[s]
           /\ \A k \in DOMAIN forwarded[s] :
                  room[forwarded[s][k].src] = room[s]
    /\ \A r \in DOMAIN rooms :
           \A k \in DOMAIN chanlog[rooms[r]] :
               room[chanlog[rooms[r]][k].src] = r
    /\ \A s \in Sessions : \A t \in Sessions :
           (pc[s] # "connecting" /\ pc[t] # "connecting" /\ room[s] # room[t])
               => tx[s] # tx[t]

\* Two live sessions in different rooms; one has had its own tweet
\* forwarded, the other has been given nothing.
C3_Witness ==
    \E a \in Sessions : \E b \in Sessions :
        /\ Live(a) /\ Live(b) /\ room[a] # room[b]
        /\ forwarded[a] # << >>
        /\ rxnext[b] = 0 /\ chanlog[tx[b]] = << >>

\* In this step session s reads the frame at the head of its inbox.
Reads(s) ==
    /\ pc[s] = "select"
    /\ ~streamDone[s]
    /\ inbox[s] # << >>
    /\ inbox'[s] # inbox[s]

WellFormed(f) == f.kind = "text" /\ f.wellFormed

\* What C4 asks of one step.
C4_StepOk ==
    \A s \in Sessions :
        (Reads(s) /\ WellFormed(Head(inbox[s]))
                  /\ Head(inbox[s]).message.chars > MaxTweetLen) =>
            /\ chanlog' = chanlog
            /\ views' = views
            /\ forwarded' = forwarded
            /\ sending' = sending
            /\ rxnext' = rxnext
            /\ pc' = pc
            /\ streamDone' = streamDone

\* C4: reading a well-formed frame whose text is longer than 128 publishes
\* nothing, counts nothing, sends nothing, and leaves the session in its
\* loop with its handles.
C4_OversizedSoftDrop == [][C4_StepOk]_vars

\* A session has just dropped a frame and is in its loop, in a room with a
\* second live session.
C4_Witness ==
    /\ last.op = "drop"
    /\ pc[last.s] = "select"
    /\ \E t \in Sessions \ {last.s} : Live(t) /\ tx[t] = tx[last.s]

\* What C5 asks of one step.
C5_StepClaim ==
    \A s \in Sessions :
        (Reads(s) /\ WellFormed(Head(inbox[s]))) =>
            IF Head(inbox[s]).message.chars <= MaxTweetLen
                THEN chanlog'[tx[s]] =
                         Append(chanlog[tx[s]],
                                Tweet(s, user[s], Head(inbox[s]).message))
                ELSE chanlog' = chanlog

\* C5 as stated: a well-formed frame is published when its text has at most
\* 128 characters, multi-byte characters or not, and dropped when it has
\* more.
C5_Claim == [][C5_StepClaim]_vars

RECURSIVE SumOver(_, _)
SumOver(f, D) ==
    IF D = {} THEN 0
    ELSE LET x == CHOOSE y \in D : TRUE IN f[x] + SumOver(f, D \ {x})

\* The (value, subscriber) pairs delivered so far: for every session, the
\* values its Receiver has yielded as Ok.
Deliveries == SumOver([s \in Sessions |-> Cardinality(Yielded(s))], Sessions)

\* C6: without a reset, the counter is the number of deliveries.
C6_ViewsAreDeliveries == ~wasReset => views = Deliveries

\* One value published, two subscribers, both were given it: the counter
\* is 2.
C6_Witness ==
    /\ ~wasReset
    /\ views = 2
    /\ \E c \in DOMAIN chanlog :
           /\ Len(chanlog[c]) = 1
           /\ \A s \in Sessions : tx[s] = c /\ Yielded(s) = {1}

\* C7 as stated: once the socket stream of a session has ended, the session
\* is closed and takes no further step on the room.
C7_Claim ==
    \A s \in Sessions :
        streamDone[s] =>
            ~(last.s = s /\ last.op \in {"receive", "forward", "lagged"})

\* C8: a key of the registry keeps its channel for ever, and every session
\* that joined a key, closed or not, holds that channel.
C8_Registry ==
    /\ [][\A r \in DOMAIN rooms : r \in DOMAIN rooms' /\ rooms'[r] = rooms[r]]_vars
    /\ [](\A s \in Sessions :
              pc[s] # "connecting" =>
                  /\ room[s] \in DOMAIN rooms
                  /\ tx[s] = rooms[room[s]])
    /\ [](\A r \in DOMAIN rooms : \A q \in DOMAIN rooms :
              rooms[r] = rooms[q] => r = q)

\* A session joins a room whose only earlier subscriber has left, and is on
\* the channel that subscriber was on.
C8_Witness ==
    \E a \in Sessions : \E b \in Sessions \ {a} :
        /\ last = Step(b, "join")
        /\ pc[a] = "closed"
        /\ room[a] = room[b]
        /\ tx[a] = tx[b]
        /\ chanlog[tx[b]] # << >>

Undecodable(f) == f.kind = "binary" \/ (f.kind = "text" /\ ~f.wellFormed)

\* In this step session s leaves its loop on a decode or transport failure.
Fails(s) ==
    \/ Reads(s) /\ (Undecodable(Head(inbox[s])) \/ Head(inbox[s]).kind = "error")
    \/ pc[s] = "sending" /\ pc'[s] = "closed"

C9_StepOk ==
    \A s \in Sessions :
        Fails(s) =>
            /\ pc'[s] = "closed"
            /\ chanlog' = chanlog
            /\ rooms' = rooms
            /\ views' = views
            /\ \A t \in Sessions \ {s} :
                   /\ pc'[t] = pc[t]
                   /\ tx'[t] = tx[t]
                   /\ rxnext'[t] = rxnext[t]
                   /\ sending'[t] = sending[t]
                   /\ forwarded'[t] = forwarded[t]

\* A live session shares its channel with a closed one: it is still a
\* Receiver of it, and nothing sent to the channel is hidden from it.
C9_OthersKeepReceiving ==
    \A s \in Sessions : \A t \in Sessions :
        (pc[s] = "closed" /\ Live(t) /\ room[t] = room[s]) =>
            /\ t \in Subscribers(rooms[room[s]])
            /\ rxnext[t] <= Len(chanlog[rooms[room[s]]])
            /\ Yielded(t) = FwdSeqs(t) \cup SendingSeqs(t)

\* C9: a session that fails on a malformed frame, a receive error or a
\* failed send closes without publishing, and changes nothing of the room
\* or of the other sessions, which keep being given what is published.
C9_FailureContained == [][C9_StepOk]_vars /\ []C9_OthersKeepReceiving

\* One session of a room has closed; the other has just forwarded a value
\* the closed one never got to.
C9_Witness ==
    \E s \in Sessions : \E t \in Sessions \ {s} :
        /\ pc[s] = "closed"
        /\ room[t] = room[s]
        /\ last = Step(t, "forward")
        /\ forwarded[t][Len(forwarded[t])].seq > rxnext[s]

PingTexts == {pread[k].token : k \in {j \in DOMAIN pread : pread[j].kind = "text"}}

\* C10: as long as no "serve" has been read, nothing has been sent, the
\* session is Idle, and it is open unless the connection ended, failed or
\* carried a frame that is no text.
C10_IdleIsSilent ==
    "serve" \notin PingTexts =>
        /\ pongs = << >>
        /\ ~started
        /\ ppc = "closed" =>
               /\ pread # << >>
               /\ pread[Len(pread)].kind \in {"eof", "error", "binary"}

\* "ping" and "pong" have been read, never "serve": the session is open and
\* has sent nothing.
C10_Witness ==
    /\ "serve" \notin PingTexts
    /\ {"ping", "pong"} \subseteq PingTexts
    /\ ppc = "open"
    /\ pinbox = << >>

\* The place of the first "serve" among the frames read (0: none).
FirstServe ==
    LET S == {k \in DOMAIN pread : pread[k].kind = "text" /\ pread[k].token = "serve"}
    IN  IF S = {} THEN 0 ELSE CHOOSE k \in S : \A j \in S : k <= j

\* The "ping" frames read after the first "serve".
PingsAfterServe ==
    IF FirstServe = 0 THEN {}
    ELSE {k \in DOMAIN pread :
              k > FirstServe /\ pread[k].kind = "text" /\ pread[k].token = "ping"}

\* The session left its loop because the send of a "pong" failed.
PongSendFailed ==
    /\ ppc = "closed"
    /\ Len(pread) \in PingsAfterServe

C11_StartedState ==
    /\ started <=> FirstServe # 0
    /\ \A k \in DOMAIN pongs : pongs[k] = "pong"
    /\ Len(pongs) = Cardinality(PingsAfterServe) - (IF PongSendFailed THEN 1 ELSE 0)
    /\ ppc = "closed" =>
           \/ PongSendFailed
           \/ pread[Len(pread)].kind \in {"eof", "error", "binary"}

\* C11: Started is never left; the replies sent are one "pong" for each
\* "ping" read after the first "serve" (but the one whose send failed and
\* ended the session), whatever other tokens, "serve" included, come in
\* between; those send nothing and end nothing.
C11_StartedAnswersPings ==
    /\ [][started => started']_vars
    /\ []C11_StartedState

\* "serve", "ping", "serve", "ping" have been read: two replies, session open.
C11_Witness ==
    /\ Len(pread) = 4
    /\ \A k \in {1, 3} : pread[k].token = "serve"
    /\ \A k \in {2, 4} : pread[k].token = "ping"
    /\ pongs = << "pong", "pong" >>
    /\ started
    /\ ppc = "open"

\* The values sent to the channel of s that its cursor is not past.
Backlog(s) == Len(chanlog[tx[s]]) - rxnext[s]

\* What C12 asks of a step in which session s loses values to lag.
C12_LagStep ==
    \A s \in Sessions :
        skipped'[s] # skipped[s] =>
            /\ Backlog(s) > Capacity
            /\ skipped'[s] =
                   skipped[s] \cup ((rxnext[s] + 1)..(Len(chanlog[tx[s]]) - Capacity))
            /\ rxnext'[s] = Len(chanlog[tx[s]]) - Capacity
            /\ views' = views
            /\ forwarded' = forwarded
            /\ sending' = sending
            /\ chanlog' = chanlog
            /\ pc' = pc
            /\ \A t \in Sessions \ {s} :
                   rxnext'[t] = rxnext[t] /\ skipped'[t] = skipped[t]

\* What C12 asks of a step in which session a reads a frame to publish.
C12_PublishStep ==
    \A a \in Sessions :
        (Reads(a) /\ WellFormed(Head(inbox[a]))
                  /\ Head(inbox[a]).message.bytes <= MaxTweetLen) =>
            /\ chanlog'[tx[a]] =
                   Append(chanlog[tx[a]], Tweet(a, user[a], Head(inbox[a]).message))
            /\ pc'[a] = "select"
            /\ \A t \in Sessions \ {a} : pc'[t] = pc[t] /\ skipped'[t] = skipped[t]

C12_State ==
    \A s \in Sessions :
        /\ skipped[s] \cap (FwdSeqs(s) \cup SendingSeqs(s)) = {}
        /\ (Live(s) /\ skipped[s] = {}) =>
               /\ FwdSeqs(s) \cup SendingSeqs(s) = (joinpos[s] + 1)..rxnext[s]
               /\ \A k \in DOMAIN forwarded[s] :
                      forwarded[s][k].seq = joinpos[s] + k
        /\ (InboundReady(s) /\ WellFormed(Head(inbox[s]))
                            /\ Head(inbox[s]).message.bytes <= MaxTweetLen) =>
               ENABLED Publish(s)

\* C12: a publish is never held up or failed by the backlog of a
\* subscriber; a subscriber observes a gap only when its own backlog
\* exceeds the capacity, the gap is exactly the overwritten values, which
\* it neither counts nor forwards, and a subscriber without a gap is given
\* every value in order.
C12_LagOnlyLaggard ==
    /\ [][C12_LagStep /\ C12_PublishStep]_vars
    /\ []C12_State

\* Two sessions of one channel with two values: one lost the first to lag
\* and forwarded the second, the other forwarded both.
C12_Witness ==
    \E s \in Sessions : \E t \in Sessions \ {s} :
        /\ Live(s) /\ Live(t) /\ tx[s] = tx[t]
        /\ Len(chanlog[tx[s]]) = 2
        /\ skipped[s] = {1} /\ FwdSeqs(s) = {2}
        /\ skipped[t] = {} /\ FwdSeqs(t) = {1, 2}

\* A step in which day19_task2_views responds.
ReadsViews == last' = Step(0, "read") /\ (last # last' \/ viewsBody' # viewsBody)

\* What C13 asks of a step that reads the counter.
C13_ReadStep ==
    ReadsViews =>
        /\ (wasReset /\ ~incSinceReset) => viewsBody' = << "0" >>
        /\ (wasReset /\ viewsBody' # << "0" >>) => incSinceReset
        /\ views' = views

\* The counter grows only by one, in the step in which a session is given
\* a broadcast value; it drops only to 0, in a reset.
C13_CounterStep ==
    /\ views' > views =>
           /\ views' = views + 1
           /\ \E s \in Sessions :
                  /\ last' = Step(s, "receive")
                  /\ pc[s] = "select" /\ pc'[s] = "sending"
           /\ incSinceReset'
    /\ views' < views => views' = 0 /\ last' = Step(0, "reset")
    /\ (last' = Step(0, "reset") /\ last # last') =>
           views' = 0 /\ ~incSinceReset'

\* C13: a read of the counter after a reset, with no increment between the
\* two, returns "0" whatever the counter held before the reset; a read
\* after a reset returns something else only if a session incremented the
\* counter in between.
C13_ResetThenRead ==
    /\ [][C13_ReadStep /\ C13_CounterStep]_vars
    /\ []((wasReset /\ ~incSinceReset) => views = 0)

\* Two values had been counted, the counter was reset, a remote sent a
\* frame, and the read that came then returned "0".
C13_Witness ==
    /\ last = Step(0, "read")
    /\ wasReset /\ ~incSinceReset
    /\ viewsBody = << "0" >>
    /\ Deliveries >= 2
    /\ \E s \in Sessions : inbox[s] # << >>

\* A step of session s that processes its pending inbound frame.
InboundStep(s) ==
    RecvEof(s) \/ RecvError(s) \/ DecodeFail(s) \/ DropTooLong(s) \/ Publish(s)

\* C14 as stated: a pending inbound frame of a Joined session can be
\* processed whatever the session's forward is doing; it is not held up by
\* a forward that is waiting on the remote participant.
C14_Claim ==
    \A s \in Sessions :
        (Live(s) /\ ~streamDone[s] /\ inbox[s] # << >>) => ENABLED InboundStep(s)

\* What C15 asks of a step in which session a reads a frame to publish.
C15_PublishStep ==
    \A a \in Sessions :
        (Reads(a) /\ WellFormed(Head(inbox[a]))
                  /\ ~TooLong(Head(inbox[a]).message)) =>
            /\ a \in Subscribers(tx[a])
            /\ ~SendFails(tx[a])
            /\ Publishes(a)
            /\ last' = Step(a, "publish")
            /\ pc'[a] = "select"

C15_State ==
    /\ last.op # "panic"
    /\ \A s \in Sessions :
           Live(s) =>
               /\ tx[s] \in DOMAIN chanlog
               /\ rooms[room[s]] = tx[s]
               /\ s \in Subscribers(tx[s])

\* C15: a Joined session holds a subscription of its room's channel from
\* its join until its loop exits, so a publish always finds a receiver: it
\* never reports an error and the unwrap never ends the session, however
\* other sessions join and leave the room.
C15_PublishNeverFails ==
    /\ [][C15_PublishStep]_vars
    /\ []C15_State

\* A session has just published to a channel the other session had joined
\* and has left: its own subscription is the only one.
C15_Witness ==
    \E s \in Sessions : \E t \in Sessions \ {s} :
        /\ last = Step(s, "publish")
        /\ tx[t] = tx[s] /\ pc[t] = "closed"
        /\ Subscribers(tx[s]) = {s}
        /\ chanlog[tx[s]][Len(chanlog[tx[s]])].src = s

\* In this step session s leaves Joined.
Leaves(s) == Live(s) /\ pc'[s] \notin {"select", "sending"}

\* What C16 asks of one step.
C16_Step ==
    \A s \in Sessions :
        /\ Leaves(s) =>
               \/ Reads(s) /\ Head(inbox[s]).kind = "error"
               \/ Reads(s) /\ Undecodable(Head(inbox[s]))
               \/ pc[s] = "sending" /\ last' = Step(s, "sendfail")
        /\ Publishes(s) =>
               /\ pc'[s] = "select"
               /\ tx'[s] = tx[s] /\ rxnext'[s] = rxnext[s]
               /\ streamDone'[s] = streamDone[s]
        /\ (Reads(s) /\ WellFormed(Head(inbox[s]))) => pc'[s] = "select"
        /\ forwarded'[s] # forwarded[s] => pc'[s] = "select"
        /\ skipped'[s] # skipped[s] => pc'[s] = "select"

\* A session at its select can take whatever is pending on either source.
C16_GoesOn ==
    \A s \in Sessions :
        pc[s] = "select" =>
            /\ (~streamDone[s] /\ inbox[s] # << >>) => ENABLED InboundStep(s)
            /\ rxnext[s] < Len(chanlog[tx[s]]) =>
                   ENABLED (RecvTweet(s) \/ RecvLagged(s))

\* C16: a publish leaves the session Joined, at its select, where it goes
\* on to process inbound frames and broadcast values; a session leaves
\* Joined only on a receive error, on an inbound frame that does not
\* decode, or on a failed forward, never on a publish, a completed forward,
\* an oversized drop or a lag gap.
C16_SurvivesPublish ==
    /\ [][C16_Step]_vars
    /\ []C16_GoesOn

\* A session published, was given and forwarded its own value, and has
\* just published again.
C16_Witness ==
    \E s \in Sessions :
        /\ last = Step(s, "publish")
        /\ Live(s)
        /\ Len(chanlog[tx[s]]) = 2
        /\ \A k \in 1..2 : chanlog[tx[s]][k].src = s
        /\ FwdSeqs(s) = {1}

====
